---- MODULE Spec2Model ----
(***************************************************************************)
(* The Lottery struct of solana_smart_lottery/src/lib.rs as a state        *)
(* machine: one action per public method, each call atomic (the host       *)
(* serialises calls on one instance).                                      *)
(*                                                                         *)
(* Modelling decisions                                                     *)
(*  - The wall clock (SystemTime::now() in seconds) is the variable `now`, *)
(*    advanced by Tick; it never moves backwards.                          *)
(*  - ticket_data is a std HashMap: the order of keys() is unspecified and *)
(*    depends on the per-map random hasher state.  iter_order holds the    *)
(*    order keys() currently yields; every operation that inserts into the *)
(*    map or builds a new one may leave any order.                         *)
(*  - SHA-256 truncated to 8 bytes is taken to be collision free on the    *)
(*    texts hashed: two ticket ids are equal exactly when the hashed texts *)
(*    are equal.                                                           *)
(*  - The u64 counters stay far below their width within the bounds.  The *)
(*    u128 amounts keep a width: U128Modulus stands for 2^128, reduced so  *)
(*    that the products fit the checker's integers.  The code's + and *    *)
(*    are unchecked: on overflow a build with overflow checks aborts the   *)
(*    call and a build without them wraps, so an overflowing call takes    *)
(*    either outcome.  An aborted call (overflow, division by zero) has    *)
(*    result "Panic" and leaves the state as it was.                       *)
(*  - op / result / ret record the last call, its Result and the value     *)
(*    select_winners / calculate_prizes returned; init_ok and lock_ok record that a call of   *)
(*    initialize_lottery / activate_time_lock has returned Ok.             *)
(***************************************************************************)
EXTENDS Integers, Sequences, FiniteSets, TLC

VARIABLES
    ticket_data,        \* HashMap<u64, Pubkey>: function id -> owner
    iter_order,         \* the order ticket_data.keys() yields
    total_tickets,
    sold_tickets,
    contract_balance,
    ticket_price,
    draw_time,
    random_seed,
    payout_structure,   \* [minor, grand]
    admin_address,
    rate_limit_map,     \* HashMap<Pubkey, u64>: function caller -> last time
    acl,                \* HashSet<Pubkey>
    now,                \* the clock reading, seconds
    op,                 \* the last method called
    result,             \* what it returned
    ret,                \* the value the last call returned, if it returns one
    init_ok,            \* initialize_lottery has returned Ok
    lock_ok             \* activate_time_lock has returned Ok

lottery == <<ticket_data, iter_order, total_tickets, sold_tickets,
             contract_balance, ticket_price, draw_time, random_seed,
             payout_structure, admin_address, rate_limit_map, acl>>

vars == <<ticket_data, iter_order, total_tickets, sold_tickets,
          contract_balance, ticket_price, draw_time, random_seed,
          payout_structure, admin_address, rate_limit_map, acl,
          now, op, result, ret, init_ok, lock_ok>>

----------------------------------------------------------------------------
(* Bounds of the model *)

MaxTime == 2
MaxDeposit == 3
MaxSold == 2
MaxBalance == 2
LargeDeposit == 1000000
MaxFeeDrop == 400
U128Modulus == 536870912

(* Program constants *)

PubkeyDefault == 0
VrfSeed == 123456
WinnerDivisor == 10
BasisPoints == 10000

(* Inputs *)

Pubkeys == {PubkeyDefault, 1, 2}
Buyers == {PubkeyDefault, 1}
TotalChoices == {0, 2, 20}
PriceChoices == {0, 1, 2}
PayoutChoices == {[minor |-> 500, grand |-> 200], [minor |-> 9000, grand |-> 2000]}
AdminChoices == {PubkeyDefault, 2}
Deposits == 0..MaxDeposit
HugeDeposit == U128Modulus - 1
PrizeDeposits == Deposits \cup {LargeDeposit, HugeDeposit}
OverflowOutcomes == {"panic", "wrap"}
Durations == {0, 1}

NoRet == [winners |-> <<>>, grand |-> -1]

----------------------------------------------------------------------------
(* Text and hashing *)

RECURSIVE Decimal(_)
Decimal(n) == IF n < 10 THEN <<n>> ELSE Append(Decimal(n \div 10), n % 10)

Format2(a, b) == Decimal(a) \o Decimal(b)

RECURSIVE FromDigits(_)
FromDigits(s) ==
    IF s = <<>> THEN 0
    ELSE FromDigits(SubSeq(s, 1, Len(s) - 1)) * 10 + s[Len(s)]

Sha256Prefix(text) == FromDigits(<<1>> \o text)

RECURSIVE StrLess(_, _)
StrLess(a, b) ==
    IF a = <<>> THEN b # <<>>
    ELSE IF b = <<>> THEN FALSE
    ELSE IF Head(a) # Head(b) THEN Head(a) < Head(b)
    ELSE StrLess(Tail(a), Tail(b))

(* HashMap helpers *)

Insert(m, k, v) == [x \in (DOMAIN m) \cup {k} |-> IF x = k THEN v ELSE m[x]]

Orders(S) ==
    {f \in [1..Cardinality(S) -> S] :
        \A i, j \in 1..Cardinality(S) : i # j => f[i] # f[j]}

Take(s, n) == SubSeq(s, 1, IF n < Len(s) THEN n ELSE Len(s))

----------------------------------------------------------------------------
Init ==
    /\ ticket_data = << >>
    /\ iter_order = << >>
    /\ total_tickets = 0
    /\ sold_tickets = 0
    /\ contract_balance = 0
    /\ ticket_price = 0
    /\ draw_time = 0
    /\ random_seed = 0
    /\ payout_structure = [minor |-> 0, grand |-> 0]
    /\ admin_address = PubkeyDefault
    /\ rate_limit_map = << >>
    /\ acl = {}
    /\ now = 0
    /\ op = "new"
    /\ result = "Ok"
    /\ ret = NoRet
    /\ init_ok = FALSE
    /\ lock_ok = FALSE

Returns(o, r) == op' = o /\ result' = r /\ ret' = NoRet

Tick ==
    /\ now < MaxTime
    /\ now' = now + 1
    /\ Returns("tick", "Ok")
    /\ UNCHANGED <<lottery, init_ok, lock_ok>>

\* initialize_lottery without its AlreadyInitialized check
initialize_lottery_unguarded(total, price, payout, admin) ==
    /\ UNCHANGED <<ticket_data, iter_order, sold_tickets, contract_balance,
                   draw_time, random_seed, rate_limit_map, acl, now, lock_ok>>
    /\ IF total = 0 \/ price = 0 \/ admin = PubkeyDefault
       THEN /\ Returns("initialize_lottery", "InvalidInput")
            /\ UNCHANGED <<total_tickets, ticket_price, payout_structure,
                           admin_address, init_ok>>
       ELSE IF payout.minor + payout.grand > BasisPoints
       THEN /\ Returns("initialize_lottery", "InvalidPayoutStructure")
            /\ UNCHANGED <<total_tickets, ticket_price, payout_structure,
                           admin_address, init_ok>>
       ELSE /\ total_tickets' = total
            /\ ticket_price' = price
            /\ payout_structure' = payout
            /\ admin_address' = admin
            /\ init_ok' = TRUE
            /\ Returns("initialize_lottery", "Ok")

initialize_lottery(total, price, payout, admin) ==
    /\ UNCHANGED <<ticket_data, iter_order, sold_tickets, contract_balance,
                   draw_time, random_seed, rate_limit_map, acl, now, lock_ok>>
    /\ IF total_tickets # 0
       THEN /\ Returns("initialize_lottery", "AlreadyInitialized")
            /\ UNCHANGED <<total_tickets, ticket_price, payout_structure,
                           admin_address, init_ok>>
       ELSE IF total = 0 \/ price = 0 \/ admin = PubkeyDefault
       THEN /\ Returns("initialize_lottery", "InvalidInput")
            /\ UNCHANGED <<total_tickets, ticket_price, payout_structure,
                           admin_address, init_ok>>
       ELSE IF payout.minor + payout.grand > BasisPoints
       THEN /\ Returns("initialize_lottery", "InvalidPayoutStructure")
            /\ UNCHANGED <<total_tickets, ticket_price, payout_structure,
                           admin_address, init_ok>>
       ELSE /\ total_tickets' = total
            /\ ticket_price' = price
            /\ payout_structure' = payout
            /\ admin_address' = admin
            /\ init_ok' = TRUE
            /\ Returns("initialize_lottery", "Ok")

\* the balance the model lets a deposit reach: a large deposit is the
\* first credit only, the largest deposit may overflow a small balance
BalanceCap(user_deposit) ==
    IF user_deposit > LargeDeposit THEN U128Modulus + MaxBalance
    ELSE IF user_deposit > MaxDeposit THEN LargeDeposit
    ELSE MaxBalance

\* a * b mod U128Modulus
RECURSIVE WrappingMul(_, _)
WrappingMul(a, b) ==
    IF b = 0 THEN 0
    ELSE LET h == WrappingMul(a, b \div 2)
         IN (h + h + (IF b % 2 = 1 THEN a ELSE 0)) % U128Modulus

MulOverflows(a, b) == b # 0 /\ a > (U128Modulus - 1) \div b

\* self.contract_balance += user_deposit, as the last step of call o
AddDeposit(o, user_deposit) ==
    LET sum == contract_balance + user_deposit
    IN \E outcome \in (IF sum >= U128Modulus THEN OverflowOutcomes
                                               ELSE {"exact"}) :
          IF outcome = "panic"
          THEN /\ UNCHANGED contract_balance
               /\ Returns(o, "Panic")
          ELSE /\ contract_balance' = sum % U128Modulus
               /\ Returns(o, "Ok")

validate_data(user_deposit) ==
    IF user_deposit < ticket_price THEN "InvalidDeposit" ELSE "Ok"

check_availability ==
    IF sold_tickets >= total_tickets THEN "OutOfTickets" ELSE "Ok"

allocate_tickets_with_u128(user_wallet_address, user_deposit) ==
    /\ contract_balance + user_deposit <= BalanceCap(user_deposit)
    /\ UNCHANGED <<ticket_data, iter_order, total_tickets, sold_tickets,
                   ticket_price, draw_time, random_seed, payout_structure,
                   admin_address, rate_limit_map, acl, now, init_ok, lock_ok>>
    /\ IF validate_data(user_deposit) # "Ok"
       THEN /\ Returns("allocate_tickets_with_u128", validate_data(user_deposit))
            /\ UNCHANGED contract_balance
       ELSE AddDeposit("allocate_tickets_with_u128", user_deposit)

new_ticket(user_wallet_address, user_deposit) ==
    /\ contract_balance + user_deposit <= BalanceCap(user_deposit)
    /\ UNCHANGED <<ticket_data, iter_order, total_tickets, sold_tickets,
                   ticket_price, draw_time, random_seed, payout_structure,
                   admin_address, rate_limit_map, acl, now, init_ok, lock_ok>>
    /\ IF validate_data(user_deposit) # "Ok"
       THEN /\ Returns("new_ticket", validate_data(user_deposit))
            /\ UNCHANGED contract_balance
       ELSE IF check_availability # "Ok"
       THEN /\ Returns("new_ticket", check_availability)
            /\ UNCHANGED contract_balance
       ELSE \* log_new_ticket, then allocate_tickets_with_u128
            AddDeposit("new_ticket", user_deposit)

\* a ticket id hashed from the time alone
generate_unique_ticket_id_time_only(time, sold) == Sha256Prefix(Decimal(time))

generate_unique_ticket_id(time, sold) == Sha256Prefix(Format2(time, sold))

\* the loop of allocate_tickets_with_f64: n more tickets for buyer
RECURSIVE MintLoop(_, _, _, _, _)
MintLoop(data, sold, time, buyer, n) ==
    IF n = 0 THEN [data |-> data, sold |-> sold]
    ELSE MintLoop(Insert(data, generate_unique_ticket_id(time, sold), buyer),
                  sold + 1, time, buyer, n - 1)

NumTickets(user_deposit) == user_deposit \div ticket_price

allocate_tickets_with_f64(user_wallet_address, user_deposit) ==
    /\ UNCHANGED <<total_tickets, contract_balance, ticket_price, draw_time,
                   random_seed, payout_structure, admin_address,
                   rate_limit_map, acl, now, init_ok, lock_ok>>
    /\ IF user_wallet_address = PubkeyDefault
       THEN /\ Returns("allocate_tickets_with_f64", "InvalidWalletAddress")
            /\ UNCHANGED <<ticket_data, iter_order, sold_tickets>>
       ELSE IF ticket_price = 0
       THEN \* user_deposit / self.ticket_price divides by zero: the call aborts
            /\ Returns("allocate_tickets_with_f64", "Panic")
            /\ UNCHANGED <<ticket_data, iter_order, sold_tickets>>
       ELSE IF sold_tickets + NumTickets(user_deposit) > total_tickets
       THEN /\ Returns("allocate_tickets_with_f64", "OutOfTickets")
            /\ UNCHANGED <<ticket_data, iter_order, sold_tickets>>
       ELSE LET after == MintLoop(ticket_data, sold_tickets, now,
                                  user_wallet_address, NumTickets(user_deposit))
            IN /\ after.sold <= MaxSold
               /\ ticket_data' = after.data
               /\ sold_tickets' = after.sold
               /\ IF NumTickets(user_deposit) = 0
                  THEN iter_order' = iter_order
                  ELSE iter_order' \in Orders(DOMAIN after.data)
               /\ Returns("allocate_tickets_with_f64", "Ok")

activate_time_lock(predefined_duration) ==
    /\ UNCHANGED <<ticket_data, iter_order, total_tickets, sold_tickets,
                   contract_balance, ticket_price, random_seed,
                   payout_structure, admin_address, rate_limit_map, acl, now,
                   init_ok>>
    /\ IF draw_time # 0
       THEN /\ Returns("activate_time_lock", "TimeLockAlreadySet")
            /\ UNCHANGED <<draw_time, lock_ok>>
       ELSE /\ draw_time' = now + predefined_duration
            /\ lock_ok' = TRUE
            /\ Returns("activate_time_lock", "Ok")

\* execute_chainlink_vrf without its draw_time == 0 check
execute_chainlink_vrf_unset_ok ==
    /\ UNCHANGED <<ticket_data, iter_order, total_tickets, sold_tickets,
                   contract_balance, ticket_price, draw_time,
                   payout_structure, admin_address, rate_limit_map, acl, now,
                   init_ok, lock_ok>>
    /\ IF now < draw_time
       THEN /\ Returns("execute_chainlink_vrf", "InvalidDrawTime")
            /\ UNCHANGED random_seed
       ELSE /\ random_seed' = VrfSeed
            /\ Returns("execute_chainlink_vrf", "Ok")

execute_chainlink_vrf ==
    /\ UNCHANGED <<ticket_data, iter_order, total_tickets, sold_tickets,
                   contract_balance, ticket_price, draw_time,
                   payout_structure, admin_address, rate_limit_map, acl, now,
                   init_ok, lock_ok>>
    /\ IF draw_time = 0 \/ now < draw_time
       THEN /\ Returns("execute_chainlink_vrf", "InvalidDrawTime")
            /\ UNCHANGED random_seed
       ELSE /\ random_seed' = VrfSeed
            /\ Returns("execute_chainlink_vrf", "Ok")

\* the key of sort_by_key: format!("{}{}", key, self.random_seed)
SortKey(key, seed) == Format2(key, seed)

\* ticket_vec after sort_by_key
SortedTickets(keys, seed) ==
    CHOOSE v \in Orders(keys) :
        \A i, j \in 1..Len(v) :
            i < j => ~StrLess(SortKey(v[j], seed), SortKey(v[i], seed))

\* sorted_map with every ticket given to the default owner
RebuildMap_default_owner(vec, data, acc) ==
    [k \in {vec[i] : i \in 1..Len(vec)} |-> PubkeyDefault]

\* sorted_map after the loop over ticket_vec
RECURSIVE RebuildMap(_, _, _)
RebuildMap(vec, data, acc) ==
    IF vec = <<>> THEN acc
    ELSE RebuildMap(Tail(vec), data,
                    IF Head(vec) \in DOMAIN data
                    THEN Insert(acc, Head(vec), data[Head(vec)])
                    ELSE acc)

\* the orders keys() may yield on the map sort_tickets has built
RebuiltOrders(vec) == Orders({vec[i] : i \in 1..Len(vec)})

sort_tickets ==
    LET ticket_vec == SortedTickets(DOMAIN ticket_data, random_seed)
    IN /\ ticket_data' = RebuildMap(ticket_vec, ticket_data, << >>)
       /\ iter_order' \in RebuiltOrders(ticket_vec)

\* execute_rng without its seed check
execute_rng_unseeded ==
    /\ UNCHANGED <<total_tickets, sold_tickets, contract_balance,
                   ticket_price, draw_time, random_seed, payout_structure,
                   admin_address, rate_limit_map, acl, now, init_ok, lock_ok>>
    /\ sort_tickets
    /\ op' = "execute_rng" /\ result' = "Ok" /\ ret' = NoRet

execute_rng ==
    /\ UNCHANGED <<total_tickets, sold_tickets, contract_balance,
                   ticket_price, draw_time, random_seed, payout_structure,
                   admin_address, rate_limit_map, acl, now, init_ok, lock_ok>>
    /\ IF random_seed = 0
       THEN /\ Returns("execute_rng", "InvalidRandomSeed")
            /\ UNCHANGED <<ticket_data, iter_order>>
       ELSE /\ sort_tickets
            /\ op' = "execute_rng" /\ result' = "Ok" /\ ret' = NoRet

\* the winners taken from the number of keys instead of total_tickets
WinnersOf_by_sold(order, total) ==
    [winners |-> Take(order, Len(order) \div WinnerDivisor), grand |-> order[1]]

\* the grand winner taken from the end of keys()
WinnersOf_last_grand(order, total) ==
    [winners |-> Take(order, total \div WinnerDivisor),
     grand |-> order[Len(order)]]

\* the value select_winners returns when it returns Ok
WinnersOf(order, total) ==
    [winners |-> Take(order, total \div WinnerDivisor), grand |-> order[1]]

\* what select_winners returns in the current state
SelectWinnersValue ==
    IF DOMAIN ticket_data = {} THEN NoRet
    ELSE WinnersOf(iter_order, total_tickets)

select_winners ==
    /\ UNCHANGED <<lottery, now, init_ok, lock_ok>>
    /\ op' = "select_winners"
    /\ result' = IF DOMAIN ticket_data = {} THEN "NoTicketsSold" ELSE "Ok"
    /\ ret' = SelectWinnersValue

\* the value calculate_prizes returns when it returns
calculate_prizes ==
    <<WrappingMul(contract_balance, payout_structure.minor) \div BasisPoints,
      WrappingMul(contract_balance, payout_structure.grand) \div BasisPoints>>

PrizesOverflow ==
    \/ MulOverflows(contract_balance, payout_structure.minor)
    \/ MulOverflows(contract_balance, payout_structure.grand)

CalculatePrizes ==
    /\ UNCHANGED <<lottery, now, init_ok, lock_ok>>
    /\ op' = "calculate_prizes"
    /\ \E outcome \in (IF PrizesOverflow THEN OverflowOutcomes ELSE {"exact"}) :
          IF outcome = "panic"
          THEN result' = "Panic" /\ ret' = NoRet
          ELSE result' = "Ok" /\ ret' = calculate_prizes

transfer_winnings ==
    /\ UNCHANGED <<lottery, now, init_ok, lock_ok>>
    /\ \E outcome \in (IF PrizesOverflow THEN OverflowOutcomes ELSE {"exact"}) :
          Returns("transfer_winnings",
                  IF outcome = "panic" THEN "Panic" ELSE "Ok")

OwnerFee == WrappingMul(contract_balance, 2) \div BasisPoints

collect_owner_fee ==
    /\ \/ contract_balance <= MaxBalance
       \/ /\ contract_balance > LargeDeposit - MaxFeeDrop
          /\ contract_balance <= LargeDeposit
       \/ contract_balance = HugeDeposit
    /\ UNCHANGED <<ticket_data, iter_order, total_tickets, sold_tickets,
                   ticket_price, draw_time, random_seed, payout_structure,
                   admin_address, rate_limit_map, acl, now, init_ok, lock_ok>>
    /\ \E outcome \in (IF MulOverflows(contract_balance, 2)
                       THEN OverflowOutcomes ELSE {"exact"}) :
          IF outcome = "panic"
          THEN /\ UNCHANGED contract_balance
               /\ Returns("collect_owner_fee", "Panic")
          ELSE /\ contract_balance' = contract_balance - OwnerFee
               /\ Returns("collect_owner_fee", "Ok")

\* the cooldown policy: a function of the caller
dynamic_rate_limit(caller) == caller

rate_limit(caller) ==
    LET last_time == IF caller \in DOMAIN rate_limit_map
                     THEN rate_limit_map[caller] ELSE 0
    IN /\ UNCHANGED <<ticket_data, iter_order, total_tickets, sold_tickets,
                      contract_balance, ticket_price, draw_time, random_seed,
                      payout_structure, admin_address, acl, now, init_ok,
                      lock_ok>>
       /\ IF now - last_time < dynamic_rate_limit(caller)
          THEN \* entry(caller).or_insert(0) has already run
               /\ rate_limit_map' = Insert(rate_limit_map, caller, last_time)
               /\ Returns("rate_limit", "RateLimited")
          ELSE /\ rate_limit_map' = Insert(rate_limit_map, caller, now)
               /\ Returns("rate_limit", "Ok")

\* validate_admin that also accepts the identities of the allowlist
validate_admin_acl(caller) ==
    /\ UNCHANGED <<lottery, now, init_ok, lock_ok>>
    /\ IF caller # admin_address /\ admin_address # PubkeyDefault
          /\ caller \notin acl
       THEN Returns("validate_admin", "InvalidAdmin")
       ELSE Returns("validate_admin", "Ok")

validate_admin(caller) ==
    /\ UNCHANGED <<lottery, now, init_ok, lock_ok>>
    /\ IF caller # admin_address /\ admin_address # PubkeyDefault
       THEN Returns("validate_admin", "InvalidAdmin")
       ELSE Returns("validate_admin", "Ok")

add_to_acl(caller) ==
    /\ acl' = acl \cup {caller}
    /\ UNCHANGED <<ticket_data, iter_order, total_tickets, sold_tickets,
                   contract_balance, ticket_price, draw_time, random_seed,
                   payout_structure, admin_address, rate_limit_map, now,
                   init_ok, lock_ok>>
    /\ Returns("add_to_acl", "Ok")

remove_from_acl(caller) ==
    /\ acl' = acl \ {caller}
    /\ UNCHANGED <<ticket_data, iter_order, total_tickets, sold_tickets,
                   contract_balance, ticket_price, draw_time, random_seed,
                   payout_structure, admin_address, rate_limit_map, now,
                   init_ok, lock_ok>>
    /\ Returns("remove_from_acl", "Ok")

Next ==
    \/ Tick
    \/ \E total \in TotalChoices, price \in PriceChoices,
          payout \in PayoutChoices, admin \in AdminChoices :
          initialize_lottery(total, price, payout, admin)
    \/ \E buyer \in Buyers, deposit \in Deposits : new_ticket(buyer, deposit)
    \/ \E buyer \in Buyers, deposit \in Deposits :
          allocate_tickets_with_u128(buyer, deposit)
    \/ \E buyer \in Buyers, deposit \in Deposits :
          allocate_tickets_with_f64(buyer, deposit)
    \/ \E duration \in Durations : activate_time_lock(duration)
    \/ execute_chainlink_vrf
    \/ execute_rng
    \/ select_winners
    \/ transfer_winnings
    \/ collect_owner_fee

NextRate ==
    \/ Tick
    \/ \E caller \in Pubkeys : rate_limit(caller)

\* the settlement path: configuration, deposits, prizes and the fee
NextPrize ==
    \/ \E total \in TotalChoices, price \in PriceChoices,
          payout \in PayoutChoices, admin \in AdminChoices :
          initialize_lottery(total, price, payout, admin)
    \/ \E buyer \in Buyers, deposit \in PrizeDeposits :
          new_ticket(buyer, deposit)
    \/ \E buyer \in Buyers, deposit \in PrizeDeposits :
          allocate_tickets_with_u128(buyer, deposit)
    \/ CalculatePrizes
    \/ transfer_winnings
    \/ collect_owner_fee

\* access control: configuration, the allowlist and the admin check
NextAccess ==
    \/ \E total \in TotalChoices, price \in PriceChoices,
          payout \in PayoutChoices, admin \in AdminChoices :
          initialize_lottery(total, price, payout, admin)
    \/ \E caller \in Pubkeys : add_to_acl(caller)
    \/ \E caller \in Pubkeys : remove_from_acl(caller)
    \/ \E caller \in Pubkeys : validate_admin(caller)

Spec == Init /\ [][Next]_vars

SpecPrize == Init /\ [][NextPrize]_vars

SpecAccess == Init /\ [][NextAccess]_vars

SpecRate == Init /\ [][NextRate]_vars

----------------------------------------------------------------------------
(* Claims *)

Min(a, b) == IF a < b THEN a ELSE b

\* C1: once initialize_lottery has returned Ok, every later
\* initialize_lottery call, whatever its arguments, returns
\* AlreadyInitialized and leaves every field of the lottery as it was.
C1_WriteOnce ==
    [][(init_ok /\ op' = "initialize_lottery")
        => (result' = "AlreadyInitialized" /\ UNCHANGED lottery)]_vars

C1_Witness ==
    init_ok /\ op = "initialize_lottery" /\ result = "AlreadyInitialized"

\* C2: in every reachable state sold_tickets <= total_tickets and
\* ticket_data has exactly sold_tickets entries.
C2_Supply ==
    /\ sold_tickets <= total_tickets
    /\ Cardinality(DOMAIN ticket_data) = sold_tickets

C2_Witness ==
    /\ op = "allocate_tickets_with_f64" /\ result = "Ok"
    /\ sold_tickets = 2 /\ Cardinality(DOMAIN ticket_data) = 2

\* C3: on a configured lottery a purchase (new_ticket or
\* allocate_tickets_with_f64) whose deposit buys more whole tickets than
\* remain returns an error and leaves the ledger size and sold_tickets
\* unchanged.
C3_AllOrNothing ==
    [][\A b \in Buyers, d \in Deposits :
        (/\ init_ok
         /\ sold_tickets + (d \div ticket_price) > total_tickets
         /\ (new_ticket(b, d) \/ allocate_tickets_with_f64(b, d)))
        => (/\ result' # "Ok"
            /\ Cardinality(DOMAIN ticket_data')
                 = Cardinality(DOMAIN ticket_data)
            /\ sold_tickets' = sold_tickets)]_vars

\* C4: when new_ticket(buyer, deposit) returns Ok on a configured lottery,
\* exactly deposit / ticket_price new ticket ids are recorded for buyer,
\* sold_tickets grows by that number and contract_balance by deposit.
C4_PurchaseEffect ==
    [][\A b \in Buyers, d \in Deposits :
        (init_ok /\ new_ticket(b, d) /\ result' = "Ok")
        => LET minted == (DOMAIN ticket_data') \ (DOMAIN ticket_data)
           IN /\ Cardinality(minted) = d \div ticket_price
              /\ \A id \in minted : ticket_data'[id] = b
              /\ sold_tickets' = sold_tickets + (d \div ticket_price)
              /\ contract_balance' = contract_balance + d]_vars

\* C5: of the activate_time_lock calls exactly the first returns Ok, every
\* later one returns TimeLockAlreadySet, and draw_time never changes once a
\* call has returned Ok.
C5_TimeLockOnce ==
    [][/\ lock_ok => draw_time' = draw_time
       /\ op' = "activate_time_lock"
            => result' = (IF lock_ok THEN "TimeLockAlreadySet" ELSE "Ok")]_vars

\* C6: execute_chainlink_vrf returns InvalidDrawTime and leaves random_seed
\* unchanged when the time-lock is unset (draw_time = 0) or now < draw_time;
\* otherwise it returns Ok and leaves a non-zero random_seed.
C6_SeedGating ==
    [][op' = "execute_chainlink_vrf"
        => IF draw_time = 0 \/ now < draw_time
           THEN result' = "InvalidDrawTime" /\ random_seed' = random_seed
           ELSE result' = "Ok" /\ random_seed' # 0]_vars

C6_Witness ==
    /\ op = "execute_chainlink_vrf" /\ result = "Ok"
    /\ draw_time # 0 /\ now >= draw_time /\ random_seed # 0

\* C7: two draws from the same ticket set, total_tickets and seed give the
\* same winners: when execute_rng succeeds again on the lottery a successful
\* execute_rng has left, select_winners returns what it returned before.
C7_Deterministic ==
    [][(/\ op = "execute_rng" /\ result = "Ok"
        /\ op' = "execute_rng" /\ result' = "Ok"
        /\ ticket_data' = ticket_data
        /\ total_tickets' = total_tickets
        /\ random_seed' = random_seed)
        => SelectWinnersValue' = SelectWinnersValue]_vars

\* C8: after a successful execute_rng with seed s, select_winners returns as
\* grand winner the ticket id with the smallest key (decimal id followed by
\* decimal s, compared as text) and as minor winners the leading ids in
\* ascending order of that key.
C8_SeedOrder ==
    [][(/\ op = "execute_rng" /\ result = "Ok"
        /\ op' = "select_winners" /\ result' = "Ok")
        => LET sorted == SortedTickets(DOMAIN ticket_data, random_seed)
           IN /\ ret'.grand = sorted[1]
              /\ ret'.winners
                   = Take(sorted, total_tickets \div WinnerDivisor)]_vars

\* C9 as stated: a successful select_winners returns exactly
\* floor(total_tickets / 10) minor winners, whatever sold_tickets is.
C9_Original ==
    (op = "select_winners" /\ result = "Ok")
        => Len(ret.winners) = total_tickets \div WinnerDivisor

\* C9: select_winners returns NoTicketsSold when the ledger is empty, and
\* otherwise exactly min(number of ledger entries, floor(total_tickets / 10))
\* minor winners.
C9_MinorCount ==
    op = "select_winners"
        => IF DOMAIN ticket_data = {}
           THEN result = "NoTicketsSold"
           ELSE /\ result = "Ok"
                /\ Len(ret.winners)
                     = Min(Cardinality(DOMAIN ticket_data),
                           total_tickets \div WinnerDivisor)

C9_Witness ==
    /\ op = "select_winners" /\ result = "Ok"
    /\ total_tickets = 20 /\ sold_tickets = 1
    /\ Len(ret.winners) = 1

\* C10: the first rate_limit call of an identity returns Ok whatever the
\* clock and the cooldown; a later call returns Ok iff
\* now - last_call >= cooldown(caller) and RateLimited otherwise; a call
\* that returns Ok sets last_call to now.
C10_RateLimit ==
    [][\A c \in Pubkeys :
        rate_limit(c)
        => /\ c \notin DOMAIN rate_limit_map => result' = "Ok"
           /\ c \in DOMAIN rate_limit_map
                => (result' = "Ok"
                      <=> now - rate_limit_map[c] >= dynamic_rate_limit(c))
           /\ result' \in {"Ok", "RateLimited"}
           /\ result' = "Ok" => rate_limit_map'[c] = now]_vars

\* floor(a * b / d), computed without forming the product
FloorMulDiv(a, b, d) == (a \div d) * b + ((a % d) * b) \div d

\* C11: calculate_prizes returns (floor(contract_balance * minor / 10000),
\* floor(contract_balance * grand / 10000)) with the configured basis
\* points, (50000, 20000) for balance 1000000, minor 500 and grand 200, and
\* changes no field of the lottery.
C11_PrizeMath ==
    [][op' = "calculate_prizes"
        => /\ UNCHANGED lottery
           /\ result' = "Ok"
           /\ ret' = <<FloorMulDiv(contract_balance,
                                   payout_structure.minor, 10000),
                       FloorMulDiv(contract_balance,
                                   payout_structure.grand, 10000)>>
           /\ (/\ contract_balance = 1000000
               /\ payout_structure = [minor |-> 500, grand |-> 200])
                => ret' = <<50000, 20000>>]_vars

\* C12: validate_admin(caller) returns Ok iff caller is the stored admin or
\* the stored admin is still the all-zero sentinel, and InvalidAdmin
\* otherwise, whatever the allowlist holds: after a successful
\* initialize_lottery an identity of the allowlist that is not the admin is
\* rejected.
C12_AdminCheck ==
    [][\A c \in Pubkeys :
        validate_admin(c)
        => /\ result' = (IF c = admin_address \/ admin_address = PubkeyDefault
                         THEN "Ok" ELSE "InvalidAdmin")
           /\ (init_ok /\ c \in acl /\ c # admin_address)
                => result' = "InvalidAdmin"]_vars

C12_Witness ==
    /\ op = "validate_admin" /\ result = "InvalidAdmin"
    /\ init_ok
    /\ (Pubkeys \ {admin_address}) \subseteq acl

\* C13: a call of a public operation that returns an error leaves every
\* field of the lottery, rate_limit_map included, as it was before the call.
C13_FailureAtomic ==
    [][(/\ op' \in {"initialize_lottery", "new_ticket",
                    "allocate_tickets_with_u128", "allocate_tickets_with_f64",
                    "activate_time_lock", "execute_chainlink_vrf",
                    "execute_rng", "select_winners", "rate_limit"}
        /\ result' # "Ok")
        => UNCHANGED lottery]_vars

\* C14: a successful execute_rng comes after a successful
\* execute_chainlink_vrf, which comes after a successful activate_time_lock
\* whose draw_time had passed when the seed was assigned; an execute_rng
\* call made while no seed is assigned returns InvalidRandomSeed and leaves
\* the tickets and their order as they were.
C14_DrawOrdering ==
    [][/\ (op' = "execute_rng" /\ random_seed = 0)
            => /\ result' = "InvalidRandomSeed"
               /\ UNCHANGED <<ticket_data, iter_order>>
       /\ (op' = "execute_rng" /\ result' = "Ok") => random_seed # 0
       /\ random_seed' # random_seed
            => /\ op' = "execute_chainlink_vrf" /\ result' = "Ok"
               /\ lock_ok /\ draw_time # 0 /\ now >= draw_time
       /\ (op' = "execute_chainlink_vrf" /\ result' = "Ok")
            => lock_ok /\ draw_time # 0 /\ now >= draw_time]_vars

C14_Witness ==
    /\ op = "execute_rng" /\ result = "Ok"
    /\ random_seed # 0 /\ lock_ok /\ now >= draw_time
    /\ sold_tickets = 2

\* C15: on a configured lottery with unsold tickets, new_ticket by the
\* all-zero identity with deposit >= ticket_price returns
\* InvalidWalletAddress and changes neither contract_balance nor the ledger.
C15_SentinelBuyer ==
    [][\A d \in Deposits :
        (/\ init_ok
         /\ sold_tickets < total_tickets
         /\ d >= ticket_price
         /\ new_ticket(PubkeyDefault, d))
        => /\ result' = "InvalidWalletAddress"
           /\ UNCHANGED <<contract_balance, ticket_data, sold_tickets>>]_vars

\* C16: once execute_rng has returned Ok no purchase (new_ticket or
\* allocate_tickets_with_f64) returns Ok and the ledger (ids, owners,
\* sold_tickets) does not change.
C16_TerminalDraw ==
    [][(op = "execute_rng" /\ result = "Ok")
        => /\ ~(/\ op' \in {"new_ticket", "allocate_tickets_with_f64"}
                /\ result' = "Ok")
           /\ UNCHANGED <<ticket_data, sold_tickets>>]_vars

\* C17: collect_owner_fee returns Ok, lowers contract_balance by exactly
\* floor(contract_balance * 2 / 10000) of the balance before the call, never
\* below zero and never upwards, and leaves every other field unchanged.
C17_OwnerFee ==
    [][op' = "collect_owner_fee"
        => /\ result' = "Ok"
           /\ contract_balance'
                = contract_balance - FloorMulDiv(contract_balance, 2, 10000)
           /\ contract_balance' >= 0
           /\ contract_balance' <= contract_balance
           /\ UNCHANGED <<ticket_data, iter_order, total_tickets,
                          sold_tickets, ticket_price, draw_time, random_seed,
                          payout_structure, admin_address, rate_limit_map,
                          acl>>]_vars

\* C18: an execute_rng that returns Ok leaves the (ticket id, owner) pairs,
\* sold_tickets, contract_balance, draw_time, random_seed and the
\* configuration as they were; only the order of the tickets may change.
C18_DrawPreservesLedger ==
    [][(op' = "execute_rng" /\ result' = "Ok")
        => /\ ticket_data' = ticket_data
           /\ {iter_order'[i] : i \in 1..Len(iter_order')} = DOMAIN ticket_data
           /\ UNCHANGED <<sold_tickets, contract_balance, draw_time,
                          random_seed, total_tickets, ticket_price,
                          payout_structure, admin_address>>]_vars

C18_Witness ==
    /\ op = "execute_rng" /\ result = "Ok"
    /\ sold_tickets = 2
    /\ Cardinality(DOMAIN ticket_data) = 2
    /\ \A k \in DOMAIN ticket_data : ticket_data[k] # PubkeyDefault

\* C19: allocate_tickets_with_f64 with a non-default buyer never aborts, a
\* lottery on which initialize_lottery has not succeeded (ticket_price = 0)
\* included: it returns Ok or a typed error.
C19_NoDivisionByZero ==
    [][\A b \in Buyers \ {PubkeyDefault}, d \in Deposits :
        allocate_tickets_with_f64(b, d) => result' # "Panic"]_vars

\* C20: when select_winners returns Ok with a non-empty minor-winner list,
\* total_tickets >= 10, the grand winner is the first element of the list,
\* the minor winners are pairwise distinct and every returned id is a key
\* of ticket_data.
C20_GrandIsMinor ==
    (op = "select_winners" /\ result = "Ok")
    => /\ ret.grand \in DOMAIN ticket_data
       /\ ret.winners # <<>>
            => /\ total_tickets >= 10
               /\ ret.grand = ret.winners[1]
               /\ \A i, j \in 1..Len(ret.winners) :
                    i # j => ret.winners[i] # ret.winners[j]
               /\ \A i \in 1..Len(ret.winners) :
                    ret.winners[i] \in DOMAIN ticket_data

C20_Witness ==
    /\ op = "select_winners" /\ result = "Ok"
    /\ total_tickets = 20
    /\ Len(ret.winners) = 2
    /\ ret.grand = ret.winners[1]

====
